---- MODULE Spec2Model ----
(***************************************************************************)
(* Model of scripts/gpu_specs.py: detect_platform, the three vendor        *)
(* gatherers, print_gpu_specs and main.                                    *)
(*                                                                         *)
(* Text read from the vendor tools is a sequence of one-character strings, *)
(* so that Python's `in`, split and strip are computed, not assumed.       *)
(* Optional fields are tagged values: None, PyInt(v), PyFloat(n, d) (the   *)
(* rational n/d), PyStr(s), PyChars(c), PyBool(b), PyDict(items).          *)
(***************************************************************************)
EXTENDS Integers, Sequences, FiniteSets, TLC

VARIABLES
    torch,          \* module global `torch`: "absent", "old" (no torch.backends.mps), "present"
    pc,             \* position of main
    platform_type,  \* main's local platform_type ("" before it is assigned)
    io,             \* outcomes of the external calls made by the function main called last
    specs,          \* main's local specs (NoSpecs before it is assigned)
    out,            \* lines printed to standard output
    err,            \* the exception in flight / caught by main
    exit_code       \* process exit status (-1 while running)

vars == <<torch, pc, platform_type, io, specs, out, err, exit_code>>

(***************************************************************************)
(* Bounds of the model.                                                    *)
(***************************************************************************)
MaxWords == 2
MaxMajor == 10
MaxMinor == 9

(***************************************************************************)
(* Values.                                                                 *)
(***************************************************************************)
None == [t |-> "none"]
PyInt(v) == [t |-> "int", v |-> v]
PyFloat(n, d) == [t |-> "float", n |-> n, d |-> d]
PyStr(s) == [t |-> "str", v |-> s]
PyChars(c) == [t |-> "chars", v |-> c]
PyBool(b) == [t |-> "bool", v |-> b]
PyDict(items) == [t |-> "dict", v |-> items]

\* Python truth value of an object
Truthy(x) ==
    CASE x.t = "none" -> FALSE
      [] x.t = "int" -> x.v # 0
      [] x.t = "float" -> x.n # 0
      [] x.t = "str" -> x.v # ""
      [] x.t = "chars" -> x.v # <<>>
      [] x.t = "bool" -> x.v
      [] x.t = "dict" -> x.v # <<>>

NoErr == [type |-> "none", msg |-> ""]
Ret(v) == [raised |-> FALSE, value |-> v, err |-> NoErr]
Raise(type, msg) == [raised |-> TRUE, value |-> None, err |-> [type |-> type, msg |-> msg]]

(***************************************************************************)
(* Python string operations on character sequences.                        *)
(***************************************************************************)
IsSpace(c) == c \in {" ", "\n", "\t"}

RECURSIVE lstrip(_)
lstrip(s) == IF s # <<>> /\ IsSpace(Head(s)) THEN lstrip(Tail(s)) ELSE s

RECURSIVE rstrip(_)
rstrip(s) == IF s # <<>> /\ IsSpace(s[Len(s)]) THEN rstrip(SubSeq(s, 1, Len(s) - 1)) ELSE s

strip(s) == rstrip(lstrip(s))

\* str.find, 1-based; 0 when sub does not occur
find(s, sub) ==
    LET idx == {i \in 1..(Len(s) - Len(sub) + 1) : SubSeq(s, i, i + Len(sub) - 1) = sub}
    IN IF idx = {} THEN 0 ELSE CHOOSE i \in idx : \A j \in idx : i <= j

\* `sub in s`
contains(sub, s) == find(s, sub) # 0

\* s.split(sep)
RECURSIVE split(_, _)
split(s, sep) ==
    LET i == find(s, sep)
    IN IF i = 0 THEN <<s>>
       ELSE <<SubSeq(s, 1, i - 1)>> \o split(SubSeq(s, i + Len(sep), Len(s)), sep)

\* s.split() with no separator: runs of whitespace separate, no empty tokens
RECURSIVE split_ws(_)
split_ws(s) ==
    LET t == lstrip(s)
    IN IF t = <<>> THEN <<>>
       ELSE LET ws == {i \in 1..Len(t) : IsSpace(t[i])}
                e == IF ws = {} THEN Len(t) + 1 ELSE CHOOSE i \in ws : \A j \in ws : i <= j
            IN <<SubSeq(t, 1, e - 1)>> \o split_ws(SubSeq(t, e, Len(t)))

DigitVal ==
    ("0" :> 0) @@ ("1" :> 1) @@ ("2" :> 2) @@ ("3" :> 3) @@ ("4" :> 4) @@
    ("5" :> 5) @@ ("6" :> 6) @@ ("7" :> 7) @@ ("8" :> 8) @@ ("9" :> 9)

RECURSIVE digits_value(_)
digits_value(s) ==
    IF s = <<>> THEN 0
    ELSE 10 * digits_value(SubSeq(s, 1, Len(s) - 1)) + DigitVal[s[Len(s)]]

\* int(tok) for a whitespace-free token: optional sign, then decimal digits;
\* anything else is a ValueError (ok = FALSE).
int(tok) ==
    LET signed == tok # <<>> /\ Head(tok) \in {"+", "-"}
        body == IF signed THEN Tail(tok) ELSE tok
    IN IF body # <<>> /\ \A i \in 1..Len(body) : body[i] \in DOMAIN DigitVal
       THEN [ok |-> TRUE,
             v |-> IF signed /\ Head(tok) = "-" THEN 0 - digits_value(body)
                   ELSE digits_value(body)]
       ELSE [ok |-> FALSE, v |-> 0]

\* float(tok) on the tokens the model feeds it (signed decimal integers or
\* non-numeric words): the value as the rational v/1, or a ValueError.
float(tok) == int(tok)

\* words joined by single spaces
RECURSIVE join(_)
join(ws) ==
    IF ws = <<>> THEN <<>>
    ELSE IF Len(ws) = 1 THEN ws[1]
    ELSE ws[1] \o <<" ">> \o join(Tail(ws))

\* every text of 1..n words drawn from W
Phrases(W, n) == UNION {{join(f) : f \in [1..k -> W]} : k \in 1..n}

(***************************************************************************)
(* detect_platform (lines 57-94).                                          *)
(***************************************************************************)
Systems == {"Darwin", "Linux"}
Processors == {"arm", "i386", "x86_64"}

\* import pynvml; nvmlInit(); nvmlDeviceGetCount()
NvmlProbes ==
    {[ok |-> FALSE, why |-> w, count |-> 0] : w \in {"ImportError", "NVMLError"}}
    \cup {[ok |-> TRUE, why |-> "", count |-> n] : n \in 0..2}

\* subprocess.run(["rocm-smi", ...]): the tool is missing, times out, or exits
ToolFailures == {[kind |-> k, rc |-> 0, stdout |-> <<>>] : k \in {"missing", "timeout"}}
RocmProbes == ToolFailures \cup {[kind |-> "exit", rc |-> r, stdout |-> <<>>] : r \in 0..2}

DetectInputs ==
    [fn : {"detect_platform"}, system : Systems, processor : Processors,
     nvml : NvmlProbes, rocm : RocmProbes, mps : BOOLEAN, cuda : BOOLEAN]

detect_platform(p) ==
    IF p.system = "Darwin" /\ p.processor = "arm" THEN Ret("apple_silicon")
    ELSE IF p.nvml.ok /\ p.nvml.count > 0 THEN Ret("nvidia")
    ELSE IF p.rocm.kind = "exit" /\ p.rocm.rc = 0 THEN Ret("amd")
    ELSE IF torch # "absent"
         THEN IF torch = "old"
              THEN Raise("AttributeError", "module 'torch.backends' has no attribute 'mps'")
              ELSE IF p.mps THEN Ret("apple_silicon")
              ELSE IF p.cuda THEN Ret("nvidia")
              ELSE Ret("unknown")
    ELSE Ret("unknown")

(***************************************************************************)
(* get_nvidia_specs (lines 97-176).                                        *)
(***************************************************************************)
arch_map ==
    [c \in {"5.0", "5.2", "5.3"} |-> "Maxwell"]
    @@ [c \in {"6.0", "6.1", "6.2"} |-> "Pascal"]
    @@ [c \in {"7.0", "7.2"} |-> "Volta"]
    @@ ("7.5" :> "Turing")
    @@ [c \in {"8.0", "8.6", "8.7"} |-> "Ampere"]
    @@ ("8.9" :> "Ada")
    @@ ("9.0" :> "Hopper")

\* f"{cap[0]}.{cap[1]}"
cap_str(cap) == ToString(cap[1]) \o "." \o ToString(cap[2])

\* arch_map.get(cap_str, f"Compute {cap_str}")
architecture_of(cap) ==
    IF cap_str(cap) \in DOMAIN arch_map THEN arch_map[cap_str(cap)]
    ELSE "Compute " \o cap_str(cap)

max_blocks_of(cap) == IF cap[1] >= 6 THEN 32 ELSE 16

\* arch_shared_mem with the Turing boundary taken as minor > 5
arch_shared_mem_mut(cap) ==
    IF cap[1] >= 9 THEN 228
    ELSE IF cap[1] = 8 THEN (IF cap[2] = 9 THEN 128 ELSE 164)
    ELSE IF cap[1] = 7 THEN (IF cap[2] > 5 THEN 96 ELSE 80)
    ELSE IF cap[1] = 6 THEN 96
    ELSE 64

\* Architectural maximums (lines 146-156)
arch_shared_mem(cap) ==
    IF cap[1] >= 9 THEN 228
    ELSE IF cap[1] = 8 THEN (IF cap[2] = 9 THEN 128 ELSE 164)
    ELSE IF cap[1] = 7 THEN (IF cap[2] >= 5 THEN 96 ELSE 80)
    ELSE IF cap[1] = 6 THEN 96
    ELSE 64

\* nvmlDeviceGetName: text, bytes that decode, or bytes that do not
NvNames ==
    {[bytes |-> FALSE, valid |-> TRUE, text |-> <<"T","e","s","t"," ","G","P","U">>],
     [bytes |-> TRUE, valid |-> TRUE, text |-> <<"N","V","I","D","I","A"," ","A","1","0","0">>],
     [bytes |-> TRUE, valid |-> FALSE, text |-> <<>>]}

Caps == (3..MaxMajor) \X (0..MaxMinor)

\* mem_info.total in MiB (total bytes = total_mib * 2^20; TLC integers are 32-bit)
TotalMiB == {8192, 24564}

NoNvml == [name |-> [bytes |-> FALSE, valid |-> TRUE, text |-> <<>>], cap |-> <<0, 0>>, total_mib |-> 0]

NvmlReads ==
    {[ok |-> FALSE, why |-> w] @@ NoNvml : w \in {"No module named 'pynvml'", "Driver Not Loaded"}}
    \cup {[ok |-> TRUE, why |-> "", name |-> n, cap |-> c, total_mib |-> m] :
            n \in NvNames, c \in Caps, m \in TotalMiB}

\* torch.cuda.get_device_properties(device_index)
NoProps ==
    [ok |-> FALSE, shared_memory_per_multiprocessor |-> 0, multi_processor_count |-> 0,
     regs_per_multiprocessor |-> 0, max_threads_per_multi_processor |-> 0]

DeviceProps ==
    {[ok |-> TRUE, shared_memory_per_multiprocessor |-> 167936, multi_processor_count |-> 108,
      regs_per_multiprocessor |-> 65536, max_threads_per_multi_processor |-> 2048],
     [ok |-> TRUE, shared_memory_per_multiprocessor |-> 103000, multi_processor_count |-> 82,
      regs_per_multiprocessor |-> 65536, max_threads_per_multi_processor |-> 1536]}

\* the (cuda available, device properties) pairs the torch in this process can give
TorchReads ==
    IF torch = "absent" THEN {[cuda |-> FALSE, props |-> NoProps]}
    ELSE {[cuda |-> FALSE, props |-> NoProps]}
         \cup {[cuda |-> TRUE, props |-> d] : d \in DeviceProps \cup {NoProps}}

NvidiaInputs ==
    {[fn |-> "get_nvidia_specs", nvml |-> n, torch |-> t] : n \in NvmlReads, t \in TorchReads}

GPUSpecs(vendor, device_name, architecture, compute_capability, compute_units, registers_per_unit, shared_memory_per_unit_kb, max_threads_per_unit, max_blocks_per_unit, total_memory_gb, additional_info) ==
    [vendor |-> vendor, device_name |-> device_name, architecture |-> architecture,
     compute_capability |-> compute_capability, compute_units |-> compute_units,
     registers_per_unit |-> registers_per_unit,
     shared_memory_per_unit_kb |-> shared_memory_per_unit_kb,
     max_threads_per_unit |-> max_threads_per_unit,
     max_blocks_per_unit |-> max_blocks_per_unit,
     total_memory_gb |-> total_memory_gb, additional_info |-> additional_info]

NvidiaFailed(msg) == Raise("RuntimeError", "Failed to get NVIDIA GPU specs: " \o msg)

get_nvidia_specs(q) ==
    IF ~q.nvml.ok THEN NvidiaFailed(q.nvml.why)
    ELSE IF q.nvml.name.bytes /\ ~q.nvml.name.valid
    THEN NvidiaFailed("'utf-8' codec can't decode byte")
    ELSE IF torch # "absent" /\ q.torch.cuda /\ ~q.torch.props.ok
    THEN NvidiaFailed("Invalid device id")
    ELSE
    LET cap == q.nvml.cap
        has_torch == torch # "absent" /\ q.torch.cuda
        d == q.torch.props
    IN Ret(GPUSpecs(
           "NVIDIA",
           q.nvml.name.text,
           architecture_of(cap),
           PyStr(cap_str(cap)),
           IF has_torch THEN PyInt(d.multi_processor_count) ELSE None,
           IF has_torch THEN PyInt(d.regs_per_multiprocessor) ELSE None,
           PyInt(arch_shared_mem(cap)),
           IF has_torch THEN PyInt(d.max_threads_per_multi_processor) ELSE None,
           PyInt(max_blocks_of(cap)),
           PyFloat(q.nvml.total_mib, 1024),
           PyDict(<<
               <<"pytorch_shared_mem_kb",
                 IF has_torch THEN PyInt(d.shared_memory_per_multiprocessor \div 1024)
                 ELSE None>>,
               <<"unit_type", PyStr("Streaming Multiprocessor (SM)")>> >>)))

(***************************************************************************)
(* get_amd_specs (lines 179-247).                                          *)
(***************************************************************************)
NL == <<"\n">>
Last(s) == s[Len(s)]

AmdWords ==
    {<<"R","X"," ","7","9","0","0">>, <<"R","X"," ","6","8","0","0">>, <<"R","X"," ","5","7","0","0">>, <<"R","X"," ","4","8","0">>, <<"V","e","g","a">>, <<"P","o","l","a","r","i","s">>, <<"R","a","d","e","o","n">>}

AmdNames == Phrases(AmdWords, MaxWords)

\* stdout of `rocm-smi --showproductname`: the name alone, or under a header
NameOutputs ==
    AmdNames \cup {<<"G","P","U","[","0","]"," ",":"," ","C","a","r","d"," ","s","e","r","i","e","s",":">> \o NL \o <<" "," ">> \o n \o <<" ">> \o NL : n \in AmdWords}

NameRuns ==
    ToolFailures \cup {[kind |-> "exit", rc |-> 1, stdout |-> <<>>]}
    \cup {[kind |-> "exit", rc |-> 0, stdout |-> s] : s \in NameOutputs}

\* stdout of `rocm-smi --showmeminfo vram`
MemOutputs ==
    {<<>>,
     <<"T","o","t","a","l"," ","(","M","B",")",":"," ","8","1","9","2"," ","u","s","e","d">>,
     <<"T","o","t","a","l"," ","(","M","B",")",":"," ","0"," ","u","s","e","d">>,
     <<"T","o","t","a","l"," ","(","M","B",")",":"," ","l","o","t","s"," ","u","s","e","d">>,
     <<"T","o","t","a","l"," ","M","B">>,
     <<"T","o","t","a","l","M","B">>,
     <<"U","s","e","d"," ","(","M","B",")",":"," ","1","0","0"," ","x">>,
     <<"v","r","a","m"," ","T","o","t","a","l"," ","(","M","B",")",":"," ","l","o","t","s"," ","u","s","e","d">> \o NL \o <<"T","o","t","a","l"," ","(","M","B",")",":"," ","5","1","2"," ","u","s","e","d">>,
     <<"T","o","t","a","l"," ","(","M","B",")",":"," ","8","1","9","2"," ","u","s","e","d">> \o NL \o <<"T","o","t","a","l"," ","(","M","B",")",":"," ","5","1","2"," ","u","s","e","d">> \o NL,
     <<"T","o","t","a","l","M","B">> \o NL \o <<"U","s","e","d"," ","(","M","B",")",":"," ","1","0","0"," ","x">> \o NL \o <<"T","o","t","a","l"," ","M","B">>}

MemRuns ==
    ToolFailures \cup {[kind |-> "exit", rc |-> 1, stdout |-> <<"T","o","t","a","l"," ","(","M","B",")",":"," ","8","1","9","2"," ","u","s","e","d">>]}
    \cup {[kind |-> "exit", rc |-> 0, stdout |-> s] : s \in MemOutputs}

NoRun == [kind |-> "exit", rc |-> 0, stdout |-> <<>>]
NoTorchRead == [hip |-> FALSE, cuda |-> FALSE, props |-> NoProps]

\* hasattr(torch.version, "hip"), torch.cuda.is_available(), get_device_properties
AmdTorchReads ==
    IF torch = "absent" THEN {NoTorchRead}
    ELSE {NoTorchRead}
         \cup {[hip |-> TRUE, cuda |-> t.cuda, props |-> t.props] : t \in TorchReads}

\* the product-name call raises, or its exit status is rejected (lines 183-190)
name_run_fails(run) == run.kind # "exit" \/ run.rc # 0

\* run_raises that also rejects a non-zero exit status
run_raises_mut(run) == run.kind # "exit" \/ run.rc # 0

\* subprocess.run itself raises: FileNotFoundError or TimeoutExpired
run_raises(run) == run.kind # "exit"

\* the calls get_amd_specs makes: a later call is made only if the earlier ones pass
AmdInputs ==
    {[fn |-> "get_amd_specs", name_run |-> n, mem_run |-> NoRun, torch |-> NoTorchRead] :
        n \in {r \in NameRuns : name_run_fails(r)}}
    \cup {[fn |-> "get_amd_specs", name_run |-> n, mem_run |-> m, torch |-> NoTorchRead] :
        n \in {r \in NameRuns : ~name_run_fails(r)}, m \in {r \in MemRuns : run_raises(r)}}
    \cup {[fn |-> "get_amd_specs", name_run |-> n, mem_run |-> m, torch |-> t] :
        n \in {r \in NameRuns : ~name_run_fails(r)}, m \in {r \in MemRuns : ~run_raises(r)},
        t \in AmdTorchReads}

run_error(run, secs) ==
    IF run.kind = "missing" THEN "[Errno 2] No such file or directory"
    ELSE IF run.kind = "timeout" THEN "Command timed out after " \o ToString(secs) \o " seconds"
    ELSE "rocm-smi not available or failed"

\* scan_total_memory reading the last token instead of the second-to-last
scan_total_memory_mut(lines) ==
    LET hits == {i \in 1..Len(lines) :
                    /\ contains(<<"T","o","t","a","l">>, lines[i]) /\ contains(<<"M","B">>, lines[i])
                    /\ split_ws(lines[i]) # <<>>
                    /\ int(Last(split_ws(lines[i]))).ok}
    IN IF hits = {} THEN None
       ELSE PyFloat(int(Last(split_ws(lines[CHOOSE i \in hits : \A j \in hits : i <= j]))).v, 1024)

\* the loop over the memory lines (lines 204-211): the first line that has
\* "Total" and "MB" and parses sets the value and breaks; ValueError and
\* IndexError go to the next line
RECURSIVE scan_total_memory(_)
scan_total_memory(lines) ==
    IF lines = <<>> THEN None
    ELSE LET line == Head(lines)
             toks == split_ws(line)
         IN IF contains(<<"T","o","t","a","l">>, line) /\ contains(<<"M","B">>, line)
            THEN IF Len(toks) < 2 THEN scan_total_memory(Tail(lines))
                 ELSE IF int(toks[Len(toks) - 1]).ok
                 THEN PyFloat(int(toks[Len(toks) - 1]).v, 1024)
                 ELSE scan_total_memory(Tail(lines))
            ELSE scan_total_memory(Tail(lines))

\* amd_architecture with the Polaris check ahead of the "RX 5" check
amd_architecture_mut(device_name) ==
    IF contains(<<"R","X"," ","7">>, device_name) \/ contains(<<"R","X"," ","6">>, device_name) THEN "RDNA 2/3"
    ELSE IF contains(<<"V","e","g","a">>, device_name) THEN "GCN 5.0 (Vega)"
    ELSE IF contains(<<"P","o","l","a","r","i","s">>, device_name) \/ contains(<<"R","X"," ","4">>, device_name)
            \/ contains(<<"R","X"," ","5">>, device_name)
    THEN "GCN 4.0 (Polaris)"
    ELSE IF contains(<<"R","X"," ","5">>, device_name) THEN "RDNA"
    ELSE "RDNA"

\* AMD architecture detection based on device name (lines 223-232)
amd_architecture(device_name) ==
    IF contains(<<"R","X"," ","7">>, device_name) \/ contains(<<"R","X"," ","6">>, device_name) THEN "RDNA 2/3"
    ELSE IF contains(<<"R","X"," ","5">>, device_name) THEN "RDNA"
    ELSE IF contains(<<"V","e","g","a">>, device_name) THEN "GCN 5.0 (Vega)"
    ELSE IF contains(<<"P","o","l","a","r","i","s">>, device_name) \/ contains(<<"R","X"," ","4">>, device_name)
            \/ contains(<<"R","X"," ","5">>, device_name)
    THEN "GCN 4.0 (Polaris)"
    ELSE "RDNA"

AmdFailed(msg) == Raise("RuntimeError", "Failed to get AMD GPU specs: " \o msg)

get_amd_specs(q) ==
    IF name_run_fails(q.name_run) THEN AmdFailed(run_error(q.name_run, 10))
    ELSE IF run_raises(q.mem_run) THEN AmdFailed(run_error(q.mem_run, 10))
    ELSE
    LET device_name == strip(Last(split(strip(q.name_run.stdout), NL)))
        total_memory_gb ==
            IF q.mem_run.rc = 0
            THEN scan_total_memory(split(strip(q.mem_run.stdout), NL))
            ELSE None
        compute_units ==
            IF torch # "absent" /\ q.torch.hip /\ q.torch.cuda /\ q.torch.props.ok
            THEN PyInt(q.torch.props.multi_processor_count)
            ELSE None
    IN Ret(GPUSpecs(
           "AMD", device_name, amd_architecture(device_name), None, compute_units,
           None, None, None, None, total_memory_gb,
           PyDict(<<
               <<"unit_type", PyStr("Compute Unit (CU)")>>,
               <<"note", PyStr("Detailed architectural specs require ROCm profiling tools")>> >>)))

(***************************************************************************)
(* get_apple_silicon_specs (lines 250-352).                                *)
(***************************************************************************)
AppleWords ==
    {<<"M","1">>, <<"M","2">>, <<"M","3">>, <<"M","4">>, <<"Z","9">>,
     <<"P","r","o">>, <<"M","a","x">>, <<"U","l","t","r","a">>, <<"M","a","x"," ","P","r","o">>, <<"U","l","t","r","a"," ","M","a","x">>}

AppleNames ==
    Phrases(AppleWords, MaxWords) \cup {<<"A","p","p","l","e"," ">> \o n : n \in Phrases(AppleWords, MaxWords)}

ChipLine(name) == <<" "," "," "," "," "," ","C","h","i","p",":"," ">> \o name \o NL

\* stdout of `system_profiler SPHardwareDataType`
HwOutputs ==
    {<<"H","a","r","d","w","a","r","e",":">> \o NL \o <<" "," "," "," "," "," ","M","o","d","e","l"," ","N","a","m","e",":"," ","M","a","c","B","o","o","k"," ","P","r","o">> \o NL \o ChipLine(n) \o m :
        n \in AppleNames, m \in {<<>>, <<" "," "," "," "," "," ","M","e","m","o","r","y",":"," ","1","6"," ","G","B">> \o NL}}
    \cup {<<"H","a","r","d","w","a","r","e",":">> \o NL \o ChipLine(<<"A","p","p","l","e"," ","M","1">>) \o m \o NL :
        m \in {<<" "," "," "," "," "," ","M","e","m","o","r","y",":"," ","0"," ","G","B">>, <<" "," "," "," "," "," ","M","e","m","o","r","y",":"," ","l","o","t","s"," ","G","B">>, <<" "," "," "," "," "," ","M","e","m","o","r","y",":"," ","1","6","3","8","4"," ","M","B">>,
               <<" "," "," "," "," "," ","M","e","m","o","r","y",":"," ","G","B">>, <<" "," "," "," "," "," ","M","e","m","o","r","y",":">>,
               <<" "," "," "," "," "," ","M","e","m","o","r","y",":"," ","8"," ","G","B">> \o NL \o <<" "," "," "," "," "," ","M","e","m","o","r","y",":"," ","3","2"," ","G","B">>}}
    \cup {<<>>,
          <<"H","a","r","d","w","a","r","e",":">> \o NL \o <<" "," "," "," "," "," ","M","o","d","e","l"," ","N","a","m","e",":"," ","M","a","c","B","o","o","k"," ","P","r","o">> \o NL \o <<" "," "," "," "," "," ","M","e","m","o","r","y",":"," ","1","6"," ","G","B">>,
          ChipLine(<<"A","p","p","l","e"," ","M","1">>) \o ChipLine(<<"A","p","p","l","e"," ","M","2"," ","P","r","o">>),
          <<" "," "," "," "," "," ","M","e","m","o","r","y",":"," ","8"," ","G","B"," ","C","h","i","p",":"," ","A","p","p","l","e"," ","M","3"," ","M","a","x">> \o NL,
          <<" "," "," "," "," "," ","C","h","i","p",":"," ","A","p","p","l","e"," ","M","4"," ","C","h","i","p",":"," ","P","r","o">> \o NL}

SysctlRuns == ToolFailures \cup {[kind |-> "exit", rc |-> r, stdout |-> <<>>] : r \in 0..1}

HwRuns ==
    ToolFailures
    \cup {[kind |-> "exit", rc |-> 1, stdout |-> ChipLine(<<"A","p","p","l","e"," ","M","2"," ","P","r","o">>)]}
    \cup {[kind |-> "exit", rc |-> 0, stdout |-> s] : s \in HwOutputs}

\* the calls get_apple_silicon_specs makes: system_profiler runs only if sysctl did not raise
AppleInputs ==
    {[fn |-> "get_apple_silicon_specs", sysctl_run |-> s, hw_run |-> NoRun] :
        s \in {r \in SysctlRuns : run_raises(r)}}
    \cup {[fn |-> "get_apple_silicon_specs", sysctl_run |-> s, hw_run |-> h] :
        s \in {r \in SysctlRuns : ~run_raises(r)}, h \in HwRuns}

\* the loop over the hardware lines (lines 274-284); no break: a later line overrides
RECURSIVE scan_hardware(_, _, _)
scan_hardware(lines, chip_name, total_memory_gb) ==
    IF lines = <<>> THEN [chip_name |-> chip_name, total_memory_gb |-> total_memory_gb]
    ELSE LET line == strip(Head(lines))
         IN IF contains(<<"C","h","i","p",":">>, line)
            THEN scan_hardware(Tail(lines), strip(split(line, <<"C","h","i","p",":">>)[2]), total_memory_gb)
            ELSE IF contains(<<"M","e","m","o","r","y",":">>, line)
            THEN LET mem_str == strip(split(line, <<"M","e","m","o","r","y",":">>)[2])
                     toks == split_ws(mem_str)
                 IN scan_hardware(
                        Tail(lines), chip_name,
                        IF contains(<<"G","B">>, mem_str) /\ toks # <<>> /\ float(toks[1]).ok
                        THEN PyFloat(float(toks[1]).v, 1)
                        ELSE total_memory_gb)
            ELSE scan_hardware(Tail(lines), chip_name, total_memory_gb)

Arch(arch, gpu_cores) == [arch |-> arch, gpu_cores |-> gpu_cores]

\* apple_architecture with "Max" tested before "Pro" for the M2
apple_architecture_mut(chip_name) ==
    IF contains(<<"M","1">>, chip_name)
    THEN IF contains(<<"P","r","o">>, chip_name) THEN Arch("Apple M1 Pro GPU", PyInt(16))
         ELSE IF contains(<<"M","a","x">>, chip_name) THEN Arch("Apple M1 Max GPU", PyInt(32))
         ELSE IF contains(<<"U","l","t","r","a">>, chip_name) THEN Arch("Apple M1 Ultra GPU", PyInt(64))
         ELSE Arch("Apple M1 GPU", PyInt(8))
    ELSE IF contains(<<"M","2">>, chip_name)
    THEN IF contains(<<"M","a","x">>, chip_name) THEN Arch("Apple M2 Max GPU", PyInt(38))
         ELSE IF contains(<<"P","r","o">>, chip_name) THEN Arch("Apple M2 Pro GPU", PyInt(19))
         ELSE IF contains(<<"U","l","t","r","a">>, chip_name) THEN Arch("Apple M2 Ultra GPU", PyInt(76))
         ELSE Arch("Apple M2 GPU", PyInt(10))
    ELSE IF contains(<<"M","3">>, chip_name)
    THEN IF contains(<<"P","r","o">>, chip_name) THEN Arch("Apple M3 Pro GPU", PyInt(18))
         ELSE IF contains(<<"M","a","x">>, chip_name) THEN Arch("Apple M3 Max GPU", PyInt(40))
         ELSE Arch("Apple M3 GPU", PyInt(10))
    ELSE IF contains(<<"M","4">>, chip_name)
    THEN IF contains(<<"P","r","o">>, chip_name) THEN Arch("Apple M4 Pro GPU", PyInt(20))
         ELSE IF contains(<<"M","a","x">>, chip_name) THEN Arch("Apple M4 Max GPU", PyInt(40))
         ELSE Arch("Apple M4 GPU", PyInt(10))
    ELSE Arch("Apple GPU", None)

\* Determine architecture based on chip (lines 286-335)
apple_architecture(chip_name) ==
    IF contains(<<"M","1">>, chip_name)
    THEN IF contains(<<"P","r","o">>, chip_name) THEN Arch("Apple M1 Pro GPU", PyInt(16))
         ELSE IF contains(<<"M","a","x">>, chip_name) THEN Arch("Apple M1 Max GPU", PyInt(32))
         ELSE IF contains(<<"U","l","t","r","a">>, chip_name) THEN Arch("Apple M1 Ultra GPU", PyInt(64))
         ELSE Arch("Apple M1 GPU", PyInt(8))
    ELSE IF contains(<<"M","2">>, chip_name)
    THEN IF contains(<<"P","r","o">>, chip_name) THEN Arch("Apple M2 Pro GPU", PyInt(19))
         ELSE IF contains(<<"M","a","x">>, chip_name) THEN Arch("Apple M2 Max GPU", PyInt(38))
         ELSE IF contains(<<"U","l","t","r","a">>, chip_name) THEN Arch("Apple M2 Ultra GPU", PyInt(76))
         ELSE Arch("Apple M2 GPU", PyInt(10))
    ELSE IF contains(<<"M","3">>, chip_name)
    THEN IF contains(<<"P","r","o">>, chip_name) THEN Arch("Apple M3 Pro GPU", PyInt(18))
         ELSE IF contains(<<"M","a","x">>, chip_name) THEN Arch("Apple M3 Max GPU", PyInt(40))
         ELSE Arch("Apple M3 GPU", PyInt(10))
    ELSE IF contains(<<"M","4">>, chip_name)
    THEN IF contains(<<"P","r","o">>, chip_name) THEN Arch("Apple M4 Pro GPU", PyInt(20))
         ELSE IF contains(<<"M","a","x">>, chip_name) THEN Arch("Apple M4 Max GPU", PyInt(40))
         ELSE Arch("Apple M4 GPU", PyInt(10))
    ELSE Arch("Apple GPU", None)

AppleFailed(msg) == Raise("RuntimeError", "Failed to get Apple Silicon specs: " \o msg)

get_apple_silicon_specs(q) ==
    IF run_raises(q.sysctl_run) THEN AppleFailed(run_error(q.sysctl_run, 5))
    ELSE IF run_raises(q.hw_run) THEN AppleFailed(run_error(q.hw_run, 10))
    ELSE
    LET scanned ==
            IF q.hw_run.rc = 0
            THEN scan_hardware(split(q.hw_run.stdout, NL), <<"A","p","p","l","e"," ","S","i","l","i","c","o","n">>, None)
            ELSE [chip_name |-> <<"A","p","p","l","e"," ","S","i","l","i","c","o","n">>, total_memory_gb |-> None]
        a == apple_architecture(scanned.chip_name)
    IN Ret(GPUSpecs(
           "Apple", scanned.chip_name, a.arch, None, a.gpu_cores,
           None, None, None, None, scanned.total_memory_gb,
           PyDict(<<
               <<"unit_type", PyStr("GPU Core")>>,
               <<"unified_memory", PyBool(TRUE)>>,
               <<"metal_support", PyBool(TRUE)>>,
               <<"note", PyStr("Uses unified memory architecture")>> >>)))

(***************************************************************************)
(* print_gpu_specs (lines 355-402).  A printed line is its label, the      *)
(* value formatted after ": ", and the text that follows the value.        *)
(***************************************************************************)
Line(label, value, suffix) == [label |-> label, value |-> value, suffix |-> suffix]
Text(s) == Line(s, None, "")

\* f"{n:,}"
Grouped(x) == [t |-> "grouped", v |-> x.v]

\* f"{x:.1f}": the number of tenths nearest to n/d, ties to even
Fixed1(x) ==
    LET q == (10 * x.n) \div x.d
        r == (10 * x.n) % x.d
    IN [t |-> "fixed1",
        tenths |-> IF 2 * r > x.d \/ (2 * r = x.d /\ q % 2 = 1) THEN q + 1 ELSE q]

\* s.replace("_", " ").title() on the names the program formats
title ==
    [k \in {"nvidia", "amd", "apple_silicon", "unknown", "note", "unified_memory",
            "metal_support", "pytorch_shared_mem_kb", "unit_type"} |->
        CASE k = "nvidia" -> "Nvidia"
          [] k = "amd" -> "Amd"
          [] k = "apple_silicon" -> "Apple Silicon"
          [] k = "unknown" -> "Unknown"
          [] k = "note" -> "Note"
          [] k = "unified_memory" -> "Unified Memory"
          [] k = "metal_support" -> "Metal Support"
          [] k = "pytorch_shared_mem_kb" -> "Pytorch Shared Mem Kb"
          [] k = "unit_type" -> "Unit Type"]

\* key in d
has_key(d, key) == \E i \in 1..Len(d.v) : d.v[i][1] = key

\* d.get(key, default)
dict_get(d, key, default) ==
    IF has_key(d, key) THEN d.v[CHOOSE i \in 1..Len(d.v) : d.v[i][1] = key][2] ELSE default

When(cond, line) == IF cond THEN <<line>> ELSE <<>>

\* the loop over additional_info.items() (lines 396-402)
RECURSIVE additional_lines(_)
additional_lines(items) ==
    IF items = <<>> THEN <<>>
    ELSE LET key == Head(items)[1]
             value == Head(items)[2]
         IN (IF key \notin {"pytorch_shared_mem_kb", "unit_type"}
             THEN IF value.t = "bool"
                  THEN When(value.v, Line(title[key], PyStr("Yes"), ""))
                  ELSE <<Line(title[key], value, "")>>
             ELSE <<>>)
            \o additional_lines(Tail(items))

unit_type_of(s) ==
    IF Truthy(s.additional_info)
    THEN dict_get(s.additional_info, "unit_type", PyStr("Compute Units")).v
    ELSE "Compute Units"

operational_line(s) ==
    IF Truthy(s.additional_info) /\ has_key(s.additional_info, "pytorch_shared_mem_kb")
    THEN LET pytorch_mem == dict_get(s.additional_info, "pytorch_shared_mem_kb", None)
         IN When(Truthy(pytorch_mem),
                 Line("Shared Memory per Unit", pytorch_mem, "KB (operational limit)"))
    ELSE <<>>

\* print_gpu_specs with the operational line after the thread limit
print_gpu_specs_mut(s) ==
    <<Line("Device", PyChars(s.device_name), ""),
      Line("Vendor", PyStr(s.vendor), ""),
      Line("Architecture", PyStr(s.architecture), "")>>
    \o When(Truthy(s.compute_capability), Line("Compute Capability", s.compute_capability, ""))
    \o When(Truthy(s.compute_units), Line(unit_type_of(s), s.compute_units, ""))
    \o When(Truthy(s.registers_per_unit),
            Line("Registers per Unit", Grouped(s.registers_per_unit), ""))
    \o When(Truthy(s.shared_memory_per_unit_kb),
            Line("Shared Memory per Unit", s.shared_memory_per_unit_kb, "KB (architectural max)"))
    \o When(Truthy(s.max_threads_per_unit),
            Line("Max Threads per Unit", Grouped(s.max_threads_per_unit), ""))
    \o operational_line(s)
    \o When(Truthy(s.max_blocks_per_unit), Line("Max Blocks per Unit", s.max_blocks_per_unit, ""))
    \o When(Truthy(s.total_memory_gb), Line("Total Memory", Fixed1(s.total_memory_gb), "GB"))
    \o (IF Truthy(s.additional_info) THEN additional_lines(s.additional_info.v) ELSE <<>>)

print_gpu_specs(s) ==
    <<Line("Device", PyChars(s.device_name), ""),
      Line("Vendor", PyStr(s.vendor), ""),
      Line("Architecture", PyStr(s.architecture), "")>>
    \o When(Truthy(s.compute_capability), Line("Compute Capability", s.compute_capability, ""))
    \o When(Truthy(s.compute_units), Line(unit_type_of(s), s.compute_units, ""))
    \o When(Truthy(s.registers_per_unit),
            Line("Registers per Unit", Grouped(s.registers_per_unit), ""))
    \o When(Truthy(s.shared_memory_per_unit_kb),
            Line("Shared Memory per Unit", s.shared_memory_per_unit_kb, "KB (architectural max)"))
    \o operational_line(s)
    \o When(Truthy(s.max_threads_per_unit),
            Line("Max Threads per Unit", Grouped(s.max_threads_per_unit), ""))
    \o When(Truthy(s.max_blocks_per_unit), Line("Max Blocks per Unit", s.max_blocks_per_unit, ""))
    \o When(Truthy(s.total_memory_gb), Line("Total Memory", Fixed1(s.total_memory_gb), "GB"))
    \o (IF Truthy(s.additional_info) THEN additional_lines(s.additional_info.v) ELSE <<>>)

(***************************************************************************)
(* main (lines 405-442) and the import of torch (lines 32-35).             *)
(***************************************************************************)
NoIo == [fn |-> "none"]
NoSpecs == [vendor |-> ""]

Init ==
    /\ torch \in {"absent", "old", "present"}
    /\ pc = "start"
    /\ platform_type = ""
    /\ io = NoIo
    /\ specs = NoSpecs
    /\ out = <<>>
    /\ err = NoErr
    /\ exit_code = -1

\* a call of main's try block returns r: a value to bind, or an exception for the handler
Raised(r) ==
    /\ r.raised
    /\ pc' = "except"
    /\ err' = r.err

\* platform_type = detect_platform() (line 408)
CallDetectPlatform ==
    /\ pc = "start"
    /\ \E p \in DetectInputs :
        /\ torch # "present" => ~p.mps /\ ~p.cuda
        /\ io' = p
        /\ \/ Raised(detect_platform(p)) /\ UNCHANGED platform_type
           \/ /\ ~detect_platform(p).raised
              /\ platform_type' = detect_platform(p).value
              /\ pc' = "detected"
              /\ UNCHANGED err
    /\ UNCHANGED <<torch, specs, out, exit_code>>

\* print(f'Detected Platform: ...') (line 409)
PrintPlatform ==
    /\ pc = "detected"
    /\ out' = Append(out, Line("Detected Platform", PyStr(title[platform_type]), ""))
    /\ pc' = "dispatch"
    /\ io' = NoIo
    /\ UNCHANGED <<torch, platform_type, specs, err, exit_code>>

\* if platform_type == "nvidia": specs = get_nvidia_specs() (lines 411-412)
CallGetNvidiaSpecs ==
    /\ pc = "dispatch"
    /\ platform_type = "nvidia"
    /\ \E q \in NvidiaInputs :
        /\ io' = q
        /\ \/ Raised(get_nvidia_specs(q)) /\ UNCHANGED specs
           \/ /\ ~get_nvidia_specs(q).raised
              /\ specs' = get_nvidia_specs(q).value
              /\ pc' = "format"
              /\ UNCHANGED err
    /\ UNCHANGED <<torch, platform_type, out, exit_code>>

\* elif platform_type == "amd": specs = get_amd_specs() (lines 415-416)
CallGetAmdSpecs ==
    /\ pc = "dispatch"
    /\ platform_type = "amd"
    /\ \E q \in AmdInputs :
        /\ io' = q
        /\ \/ Raised(get_amd_specs(q)) /\ UNCHANGED specs
           \/ /\ ~get_amd_specs(q).raised
              /\ specs' = get_amd_specs(q).value
              /\ pc' = "format"
              /\ UNCHANGED err
    /\ UNCHANGED <<torch, platform_type, out, exit_code>>

\* elif platform_type == "apple_silicon": specs = get_apple_silicon_specs() (lines 419-420)
CallGetAppleSiliconSpecs ==
    /\ pc = "dispatch"
    /\ platform_type = "apple_silicon"
    /\ \E q \in AppleInputs :
        /\ io' = q
        /\ \/ Raised(get_apple_silicon_specs(q)) /\ UNCHANGED specs
           \/ /\ ~get_apple_silicon_specs(q).raised
              /\ specs' = get_apple_silicon_specs(q).value
              /\ pc' = "format"
              /\ UNCHANGED err
    /\ UNCHANGED <<torch, platform_type, out, exit_code>>

\* print_gpu_specs(specs) (lines 413, 417, 421)
CallPrintGpuSpecs ==
    /\ pc = "format"
    /\ out' = out \o print_gpu_specs(specs)
    /\ pc' = "return"
    /\ io' = NoIo
    /\ UNCHANGED <<torch, platform_type, specs, err, exit_code>>

\* the else branch (lines 423-438)
PrintUnsupported ==
    /\ pc = "dispatch"
    /\ platform_type \notin {"nvidia", "amd", "apple_silicon"}
    /\ \E cuda \in BOOLEAN, mps \in BOOLEAN :
        /\ torch # "present" => ~mps
        /\ torch = "absent" => ~cuda
        /\ out' = out
               \o <<Text("No compatible GPU detected or unsupported platform."),
                    Text("Supported platforms: NVIDIA (CUDA), AMD (ROCm), Apple Silicon (Metal)")>>
               \o (IF torch # "absent"
                   THEN <<Line("PyTorch available", PyStr("Yes"), ""),
                          Line("CUDA available", PyBool(cuda), "")>>
                        \o When(torch = "present", Line("MPS available", PyBool(mps), ""))
                   ELSE <<Text("PyTorch not available - install PyTorch for better GPU detection")>>)
    /\ pc' = "return"
    /\ io' = NoIo
    /\ UNCHANGED <<torch, platform_type, specs, err, exit_code>>

\* MainReturn leaving with status 1
MainReturn_mut ==
    /\ pc = "return"
    /\ pc' = "done"
    /\ exit_code' = 1
    /\ UNCHANGED <<torch, platform_type, io, specs, out, err>>

\* main returns; the interpreter exits with status 0
MainReturn ==
    /\ pc = "return"
    /\ pc' = "done"
    /\ exit_code' = 0
    /\ UNCHANGED <<torch, platform_type, io, specs, out, err>>

\* except Exception as e: print(...); sys.exit(1) (lines 440-442)
MainExcept ==
    /\ pc = "except"
    /\ out' = Append(out, Line("Error detecting GPU specifications", PyStr(err.msg), ""))
    /\ exit_code' = 1
    /\ pc' = "done"
    /\ io' = NoIo
    /\ UNCHANGED <<torch, platform_type, specs, err>>

Next ==
    \/ CallDetectPlatform
    \/ PrintPlatform
    \/ CallGetNvidiaSpecs
    \/ CallGetAmdSpecs
    \/ CallGetAppleSiliconSpecs
    \/ CallPrintGpuSpecs
    \/ PrintUnsupported
    \/ MainReturn
    \/ MainExcept

Spec == Init /\ [][Next]_vars

(***************************************************************************)
(* Properties.                                                             *)
(***************************************************************************)
Min(S) == CHOOSE i \in S : \A j \in S : i <= j
Platforms == {"nvidia", "amd", "apple_silicon", "unknown"}
HasLine(label) == \E i \in 1..Len(out) : out[i].label = label

\* the priority order of C1 as a list of (probe matched, platform) pairs
Priority(p) ==
    <<<<p.system = "Darwin" /\ p.processor = "arm", "apple_silicon">>,
      <<p.nvml.ok /\ p.nvml.count > 0, "nvidia">>,
      <<p.rocm.kind = "exit" /\ p.rocm.rc = 0, "amd">>,
      <<torch # "absent" /\ p.mps, "apple_silicon">>,
      <<torch # "absent" /\ p.cuda, "nvidia">>,
      <<TRUE, "unknown">> >>

FirstMatch(p) == Priority(p)[Min({i \in 1..Len(Priority(p)) : Priority(p)[i][1]})][2]

\* C1: for every combination of probe outcomes detect_platform returns the
\* first match of the order Apple OS/CPU, NVML, rocm-smi, torch MPS, torch
\* CUDA, else "unknown", and the result is one of the four platform values.
C1_FirstMatchWins ==
    io.fn = "detect_platform" =>
        /\ pc = "detected"
        /\ platform_type = FirstMatch(io)
        /\ platform_type \in Platforms

\* C2: detect_platform never raises: no failure of a sub-probe reaches main.
C2_DetectNeverRaises ==
    io.fn = "detect_platform" => err = NoErr /\ pc # "except"

\* C3: every run of main ends with exit code 0 or 1; 0 when the gatherer and
\* the formatter complete and when detection returns "unknown" (message
\* printed, no gatherer called); 1 exactly when the sequence raised, with the
\* error's description printed last.
C3_ExitCodes ==
    /\ pc # "done" => exit_code = -1
    /\ pc = "done" =>
        /\ exit_code \in {0, 1}
        /\ exit_code = 1 <=> err # NoErr
        /\ exit_code = 1 =>
            Last(out) = Line("Error detecting GPU specifications", PyStr(err.msg), "")
        /\ (err = NoErr /\ platform_type = "unknown") =>
            /\ exit_code = 0
            /\ specs = NoSpecs
            /\ HasLine("No compatible GPU detected or unsupported platform.")
            /\ ~HasLine("Device")
        /\ (err = NoErr /\ platform_type # "unknown") =>
            /\ exit_code = 0
            /\ specs # NoSpecs
            /\ HasLine("Device")

C3_Witness == pc = "done" /\ exit_code = 1 /\ err.type = "RuntimeError"

ToolFailed(run) == run.kind # "exit" \/ run.rc # 0

\* C4 as stated: any failure (missing, timeout, non-zero exit) of any vendor
\* tool invocation inside the gatherer makes the gatherer raise a wrapped
\* RuntimeError; no record is returned.
C4_AnyToolFailureFatal ==
    /\ (io.fn = "get_amd_specs" /\ (ToolFailed(io.name_run) \/ ToolFailed(io.mem_run))) =>
        pc = "except" /\ err.type = "RuntimeError"
    /\ (io.fn = "get_apple_silicon_specs"
        /\ (ToolFailed(io.sysctl_run) \/ ToolFailed(io.hw_run))) =>
        pc = "except" /\ err.type = "RuntimeError"

\* C4 amended: a missing or timed-out tool, and a non-zero exit of
\* `rocm-smi --showproductname`, are fatal (wrapped RuntimeError, exit 1); a
\* non-zero exit of `rocm-smi --showmeminfo vram`, system_profiler or sysctl
\* is not: the gatherer returns a record whose affected fields keep their
\* defaults.
C4_FatalToolFailures ==
    /\ io.fn = "get_amd_specs" =>
        /\ pc = "except" <=>
            \/ ToolFailed(io.name_run)
            \/ io.mem_run.kind \in {"missing", "timeout"}
        /\ pc = "except" => err.type = "RuntimeError" /\ specs = NoSpecs
        /\ (pc # "except" /\ io.mem_run.rc # 0) =>
            specs.vendor = "AMD" /\ specs.total_memory_gb = None
    /\ io.fn = "get_apple_silicon_specs" =>
        /\ pc = "except" <=>
            \/ io.sysctl_run.kind \in {"missing", "timeout"}
            \/ io.hw_run.kind \in {"missing", "timeout"}
        /\ pc = "except" => err.type = "RuntimeError" /\ specs = NoSpecs
        /\ (pc # "except" /\ io.hw_run.rc # 0) =>
            /\ specs.device_name = <<"A","p","p","l","e"," ","S","i","l","i","c","o","n">>
            /\ specs.architecture = "Apple GPU"
            /\ specs.compute_units = None
            /\ specs.total_memory_gb = None
    /\ (pc = "done" /\ err.type = "RuntimeError") => exit_code = 1

C4_Witness ==
    /\ io.fn = "get_amd_specs"
    /\ io.mem_run.kind = "exit"
    /\ io.mem_run.rc # 0
    /\ pc = "format"

\* the table of C5
ClaimedSharedMem(major, minor) ==
    CASE major >= 9 -> 228
      [] major = 8 /\ minor = 9 -> 128
      [] major = 8 /\ minor # 9 -> 164
      [] major = 7 /\ minor >= 5 -> 96
      [] major = 7 /\ minor < 5 -> 80
      [] major = 6 -> 96
      [] OTHER -> 64

\* C5: shared_memory_per_unit_kb of the record of get_nvidia_specs is the
\* piecewise architectural maximum of (major, minor), with or without the ML
\* framework; the framework's value is stored under
\* additional_info["pytorch_shared_mem_kb"].
C5_ArchSharedMem ==
    (io.fn = "get_nvidia_specs" /\ pc = "format") =>
        /\ specs.shared_memory_per_unit_kb =
            PyInt(ClaimedSharedMem(io.nvml.cap[1], io.nvml.cap[2]))
        /\ Cardinality({i \in 1..Len(specs.additional_info.v) :
                           specs.additional_info.v[i][1] = "pytorch_shared_mem_kb"}) = 1
        /\ dict_get(specs.additional_info, "pytorch_shared_mem_kb", None) =
            IF torch # "absent" /\ io.torch.cuda
            THEN PyInt(io.torch.props.shared_memory_per_multiprocessor \div 1024)
            ELSE None

C5_Witness ==
    /\ io.fn = "get_nvidia_specs"
    /\ pc = "format"
    /\ io.nvml.cap = <<7, 5>>
    /\ io.torch.cuda
    /\ dict_get(specs.additional_info, "pytorch_shared_mem_kb", None) = PyInt(100)

\* the table of C6
Generations == <<"M1", "M2", "M3", "M4">>
Tiers == <<"Pro", "Max", "Ultra">>
TokenChars ==
    ("M1" :> <<"M","1">>) @@ ("M2" :> <<"M","2">>) @@ ("M3" :> <<"M","3">>) @@ ("M4" :> <<"M","4">>)
    @@ ("Pro" :> <<"P","r","o">>) @@ ("Max" :> <<"M","a","x">>) @@ ("Ultra" :> <<"U","l","t","r","a">>)
CoreTable ==
    ("M1" :> (("base" :> 8) @@ ("Pro" :> 16) @@ ("Max" :> 32) @@ ("Ultra" :> 64)))
    @@ ("M2" :> (("base" :> 10) @@ ("Pro" :> 19) @@ ("Max" :> 38) @@ ("Ultra" :> 76)))
    @@ ("M3" :> (("base" :> 10) @@ ("Pro" :> 18) @@ ("Max" :> 40)))
    @@ ("M4" :> (("base" :> 10) @@ ("Pro" :> 20) @@ ("Max" :> 40)))

ClaimedApple(name) ==
    LET gs == {i \in 1..Len(Generations) : contains(TokenChars[Generations[i]], name)}
    IN IF gs = {} THEN Arch("Apple GPU", None)
       ELSE LET g == Generations[Min(gs)]
                ts == {j \in 1..Len(Tiers) :
                          /\ Tiers[j] \in DOMAIN CoreTable[g]
                          /\ contains(TokenChars[Tiers[j]], name)}
            IN IF ts = {} THEN Arch("Apple " \o g \o " GPU", PyInt(CoreTable[g]["base"]))
               ELSE Arch("Apple " \o g \o " " \o Tiers[Min(ts)] \o " GPU",
                         PyInt(CoreTable[g][Tiers[Min(ts)]]))

\* C6: architecture and core count of the record of get_apple_silicon_specs
\* come from the first generation token and then the first tier token (of the
\* tiers the table has for that generation) contained in the chip name; a
\* name with no generation token gives "Apple GPU" and no core count.
C6_AppleChipTable ==
    (io.fn = "get_apple_silicon_specs" /\ pc = "format") =>
        /\ specs.architecture = ClaimedApple(specs.device_name).arch
        /\ specs.compute_units = ClaimedApple(specs.device_name).gpu_cores
        /\ specs.device_name = <<"A","p","p","l","e"," ","M","2"," ","P","r","o">> =>
            specs.architecture = "Apple M2 Pro GPU" /\ specs.compute_units = PyInt(19)
        /\ specs.device_name = <<"A","p","p","l","e"," ","M","1">> =>
            specs.architecture = "Apple M1 GPU" /\ specs.compute_units = PyInt(8)
        /\ specs.device_name = <<"A","p","p","l","e"," ","Z","9">> =>
            specs.architecture = "Apple GPU" /\ specs.compute_units = None

C6_Witness ==
    /\ io.fn = "get_apple_silicon_specs"
    /\ pc = "format"
    /\ specs.device_name = <<"A","p","p","l","e"," ","M","2"," ","M","a","x"," ","P","r","o">>
    /\ specs.compute_units = PyInt(19)

\* C7: total_memory_gb of the record of get_amd_specs is N / 1024 for the
\* first line of the memory output that has "Total" and "MB" and an integer N
\* as its second-to-last token; lines that do not parse are skipped without
\* an error, and with no line that parses the field stays unset and the
\* record is still returned.
C7_AmdMemoryParse ==
    /\ (io.fn = "get_amd_specs" /\ pc = "format" /\ io.mem_run.rc = 0) =>
        LET lines == split(strip(io.mem_run.stdout), NL)
            Tok(i) == split_ws(lines[i])
            good == {i \in 1..Len(lines) :
                        /\ contains(<<"T","o","t","a","l">>, lines[i])
                        /\ contains(<<"M","B">>, lines[i])
                        /\ Len(Tok(i)) >= 2
                        /\ int(Tok(i)[Len(Tok(i)) - 1]).ok}
        IN /\ good = {} => specs.total_memory_gb = None
           /\ good # {} =>
               /\ specs.total_memory_gb.t = "float"
               /\ specs.total_memory_gb.n = int(Tok(Min(good))[Len(Tok(Min(good))) - 1]).v
               /\ specs.total_memory_gb.d = 1024
           /\ io.mem_run.stdout = <<"T","o","t","a","l"," ","(","M","B",")",":"," ","8","1","9","2"," ","u","s","e","d">> =>
               specs.total_memory_gb.n = 8 * specs.total_memory_gb.d
    /\ (io.fn = "get_amd_specs" /\ ~ToolFailed(io.name_run) /\ io.mem_run.kind = "exit") =>
        pc = "format" /\ err = NoErr /\ specs.vendor = "AMD"

C7_Witness ==
    /\ io.fn = "get_amd_specs"
    /\ pc = "format"
    /\ io.mem_run.rc = 0
    /\ io.mem_run.stdout = <<"v","r","a","m"," ","T","o","t","a","l"," ","(","M","B",")",":"," ","l","o","t","s"," ","u","s","e","d">> \o NL \o <<"T","o","t","a","l"," ","(","M","B",")",":"," ","5","1","2"," ","u","s","e","d">>
    /\ specs.total_memory_gb = PyFloat(512, 1024)

OptionalFields ==
    {"compute_capability", "compute_units", "registers_per_unit", "shared_memory_per_unit_kb",
     "max_threads_per_unit", "max_blocks_per_unit", "total_memory_gb"}

\* the line print_gpu_specs prints for an optional field
FieldPrinted(f) ==
    \E i \in 1..Len(out) :
        /\ out[i].label =
            CASE f = "compute_capability" -> "Compute Capability"
              [] f = "compute_units" -> unit_type_of(specs)
              [] f = "registers_per_unit" -> "Registers per Unit"
              [] f = "shared_memory_per_unit_kb" -> "Shared Memory per Unit"
              [] f = "max_threads_per_unit" -> "Max Threads per Unit"
              [] f = "max_blocks_per_unit" -> "Max Blocks per Unit"
              [] f = "total_memory_gb" -> "Total Memory"
        /\ f = "shared_memory_per_unit_kb" => out[i].suffix = "KB (architectural max)"

\* C8: print_gpu_specs always prints Device, Vendor and Architecture, and
\* prints the line of each optional field exactly when the field is present
\* (not None), whatever its value, 0 included.
C8_PrintsPresentFields ==
    (pc = "return" /\ specs # NoSpecs) =>
        /\ HasLine("Device") /\ HasLine("Vendor") /\ HasLine("Architecture")
        /\ \A f \in OptionalFields : specs[f] # None <=> FieldPrinted(f)

IsOperational(l) == l.label = "Shared Memory per Unit" /\ l.suffix = "KB (operational limit)"
IsArchMax(l) == l.label = "Shared Memory per Unit" /\ l.suffix = "KB (architectural max)"

\* C9: when additional_info carries an operational shared-memory value, the
\* "(operational limit)" line is printed, the line directly before any
\* "(operational limit)" line is the "(architectural max)" line, and no line
\* is printed for the keys pytorch_shared_mem_kb and unit_type.
C9_OperationalLineFollows ==
    (pc = "return" /\ specs # NoSpecs) =>
        /\ \A i \in 1..Len(out) :
            IsOperational(out[i]) =>
                /\ i > 1
                /\ IsArchMax(out[i - 1])
                /\ out[i - 1].value = specs.shared_memory_per_unit_kb
        /\ dict_get(specs.additional_info, "pytorch_shared_mem_kb", None) # None =>
            \E i \in 1..Len(out) :
                /\ IsOperational(out[i])
                /\ out[i].value = dict_get(specs.additional_info, "pytorch_shared_mem_kb", None)
        /\ \A i \in 1..Len(out) :
            out[i].label \notin {title["pytorch_shared_mem_kb"], title["unit_type"]}

C9_Witness ==
    /\ pc = "return"
    /\ specs # NoSpecs
    /\ \E i \in 1..Len(out) : IsOperational(out[i]) /\ out[i].value = PyInt(100)

\* the ordered checks of C10
AmdRules ==
    <<<<{<<"R","X"," ","7">>, <<"R","X"," ","6">>}, "RDNA 2/3">>,
      <<{<<"R","X"," ","5">>}, "RDNA">>,
      <<{<<"V","e","g","a">>}, "GCN 5.0 (Vega)">>,
      <<{<<"P","o","l","a","r","i","s">>, <<"R","X"," ","4">>}, "GCN 4.0 (Polaris)">> >>

ClaimedAmdArch(name) ==
    LET m == {i \in 1..Len(AmdRules) : \E tok \in AmdRules[i][1] : contains(tok, name)}
    IN IF m = {} THEN "RDNA" ELSE AmdRules[Min(m)][2]

\* C10: the architecture label of get_amd_specs is that of the earliest
\* matching check in the order "RX 7"/"RX 6", "RX 5", "Vega",
\* "Polaris"/"RX 4", default "RDNA"; no name containing "RX 5" is labelled
\* "GCN 4.0 (Polaris)".
C10_AmdFirstMatch ==
    (io.fn = "get_amd_specs" /\ pc = "format") =>
        /\ specs.architecture = ClaimedAmdArch(specs.device_name)
        /\ contains(<<"R","X"," ","5">>, specs.device_name) => specs.architecture # "GCN 4.0 (Polaris)"

C10_Witness ==
    /\ io.fn = "get_amd_specs"
    /\ pc = "format"
    /\ specs.device_name = <<"P","o","l","a","r","i","s"," ","R","X"," ","5","7","0","0">>
    /\ specs.architecture = "RDNA"

====
